---- MODULE Spec2Model ----
(***************************************************************************)
(* A model of the media editor: the per-frame pixel transform of the video *)
(* editor and the noise step of the image editor, the video editor with    *)
(* its worker thread, the image editor, and the main window.               *)
(*                                                                         *)
(* The frame transform runs in IEEE-754 single precision (numpy float32).  *)
(* A float32 is modelled as a pair <<m, e>> standing for m * 2^e, with     *)
(* m = 0 or 2^23 <= m < 2^24, and every product is rounded to nearest,     *)
(* ties to even, exactly as the hardware does.  Products of two 24-bit     *)
(* mantissas are formed from 12-bit limbs so that no intermediate value    *)
(* leaves the 32-bit integers of the model checker.                        *)
(***************************************************************************)
EXTENDS Integers, Sequences, FiniteSets, TLC

VARIABLES
    \* the pixel transform
    fx_frame,           \* the input frame: a sequence of uint8 channel values
    fx_settings,        \* VideoProcessor.settings
    fx_sample,          \* the np.random.normal draw, one value per channel
    fx_out,             \* the frame returned by the last transform
    fx_op,              \* which transform produced fx_out
    \* the video editor
    disk_video,         \* the file on disk the open dialog offers
    current_video_path, \* VideoEditor.current_video_path ("None" or "clip")
    current_settings,   \* VideoEditor.current_settings, the dict the sliders write
    slider_moves,       \* slider movements of the video editor so far
    video_processor,    \* VideoEditor.video_processor (0 is None)
    vp,                 \* the VideoProcessor objects, by creation order
    process_button,     \* state of the Process Video button
    cancel_button,      \* state of the Cancel Processing button
    progress_bar,       \* value last set on the progress bar, in percent
    ui_log,             \* UI effects so far: <<effect, executing thread>>
    ui_pc,              \* what the UI thread is doing
    \* the image editor
    ie_original_image,  \* ImageEditor.original_image ("None" or an image)
    ie_image,           \* ImageEditor.image
    ie_display,         \* the image the label shows (display_photo)
    ie_settings,        \* ImageEditor.current_settings
    ie_sliders,         \* ImageEditor.sliders: the position of each slider
    ie_error,           \* the error dialog the last handler showed
    ie_last,            \* the last handler, with its argument or the image it wrote
    \* the main window
    current_editor,     \* MainApplication.current_editor (0 is None)
    windows,            \* the editor windows that exist
    editors_made,       \* editor windows constructed so far
    main_window,        \* the main window: "normal" or "iconic"
    main_dialogs,       \* error dialogs the main window has shown
    main_running,       \* FALSE once quit() ended the main loop
    main_last           \* the last handler of the main window

fx_vars == <<fx_frame, fx_settings, fx_sample, fx_out, fx_op>>

ve_vars == <<disk_video, current_video_path, current_settings, slider_moves,
             video_processor, vp, process_button,
             cancel_button, progress_bar, ui_log, ui_pc>>

ie_vars == <<ie_original_image, ie_image, ie_display, ie_settings, ie_sliders,
             ie_error, ie_last>>

main_vars == <<current_editor, windows, editors_made, main_window, main_dialogs,
               main_running, main_last>>

vars == <<fx_vars, ve_vars, ie_vars, main_vars>>

----------------------------------------------------------------------------
(* Bounds of the pixel-transform model *)

\* channels per modelled frame
FrameLen == 1

\* channel values a frame is drawn from (uint8)
Pixels == {0, 5, 100, 255}

\* slider positions the settings are drawn from (sliders run -100..100)
Levels == {-100, -84, -50, 0, 25, 100}

\* slider positions for the noise setting
NoiseLevels == {-100, 0, 100}

\* values a Gaussian draw is rounded to in the model
NoiseSamples == {-300, -1, 0, 300}

Frames == [1..FrameLen -> Pixels]

SampleFrames == [1..FrameLen -> NoiseSamples]

VideoSettings == [noise : NoiseLevels, brightness : Levels, contrast : Levels]

----------------------------------------------------------------------------
(* IEEE-754 single precision *)

RECURSIVE Pow2(_)
Pow2(k) == IF k = 0 THEN 1 ELSE 2 * Pow2(k - 1)

T12 == Pow2(12)
T23 == Pow2(23)
T24 == Pow2(24)

F32Zero == <<0, 0>>

\* shift a positive integer mantissa left until it has 24 significant bits
RECURSIVE F32Normalize(_, _)
F32Normalize(m, e) == IF m >= T23 THEN <<m, e>> ELSE F32Normalize(2 * m, e - 1)

\* uint8 -> float32 (exact)
F32FromInt(p) == IF p = 0 THEN F32Zero ELSE F32Normalize(p, 0)

\* round q + r/d (0 <= r < d) to nearest, ties to even
RoundHalfEven(q, r, d) ==
    IF 2 * r > d \/ (2 * r = d /\ q % 2 = 1) THEN q + 1 ELSE q

\* a mantissa that rounding carried up to 2^24 is renormalised
F32Carry(m, e) == IF m = T24 THEN <<T23, e + 1>> ELSE <<m, e>>

RECURSIVE F32ScaleNum(_, _)
F32ScaleNum(n, k) == IF n >= 100 * T23 THEN <<n, k>> ELSE F32ScaleNum(2 * n, k + 1)

\* the float32 nearest to num/100, for 0 <= num <= 200
F32FromHundredths(num) ==
    IF num = 0 THEN F32Zero
    ELSE LET nk == F32ScaleNum(num, 0)
             q  == nk[1] \div 100
             r  == nk[1] % 100
         IN  F32Carry(RoundHalfEven(q, r, 100), -nk[2])

\* float32 product, rounded to nearest even
F32Mul(a, b) ==
    IF a[1] = 0 \/ b[1] = 0 THEN F32Zero
    ELSE LET a1 == a[1] \div T12
             a0 == a[1] % T12
             b1 == b[1] \div T12
             b0 == b[1] % T12
             mid == a1 * b0 + a0 * b1
             losum == a0 * b0 + (mid % T12) * T12
             lo == losum % T24
             hi == a1 * b1 + (mid \div T12) + (losum \div T24)
             e  == a[2] + b[2] + 24
         IN  IF hi >= T23
             THEN F32Carry(RoundHalfEven(hi, lo, T24), e)
             ELSE F32Carry(RoundHalfEven(2 * hi + (lo \div T23), lo % T23, T23), e - 1)

\* the integer part of a non-negative float32
F32Floor(a) ==
    IF a[1] = 0 THEN 0
    ELSE IF a[2] >= 0 THEN a[1] * Pow2(a[2])
    ELSE IF -a[2] >= 24 THEN 0
    ELSE a[1] \div Pow2(-a[2])

----------------------------------------------------------------------------
(* numpy helpers *)

\* np.clip(x, lo, hi)
Clip(x, lo, hi) == IF x < lo THEN lo ELSE IF x > hi THEN hi ELSE x

\* ndarray.astype(np.uint8) of an integral value
AsUint8(x) == x % 256

----------------------------------------------------------------------------
(* VideoProcessor.apply_effects, one channel *)

\* 1.0 + setting / 100.0, as the float32 the array product uses
EffectFactor(setting) == F32FromHundredths(100 + setting)

\* the float32 channel value after the brightness and contrast products
ScaledChannel(p, s) ==
    LET f0 == F32FromInt(p)
        f1 == IF s.brightness # 0 THEN F32Mul(f0, EffectFactor(s.brightness)) ELSE f0
        f2 == IF s.contrast # 0 THEN F32Mul(f1, EffectFactor(s.contrast)) ELSE f1
    IN  f2

\* a faulty variant: the channel returned without the final clip and conversion
ApplyChannel_NoClip(p, s, n) ==
    F32Floor(ScaledChannel(p, s)) + (IF s.noise > 0 THEN n ELSE 0)

\* a faulty variant: the channel clipped after every product, as a uint8
\* pipeline would
ApplyChannel_ClipEach(p, s, n) ==
    LET f1 == IF s.brightness # 0
              THEN Clip(F32Floor(F32Mul(F32FromInt(p), EffectFactor(s.brightness))), 0, 255)
              ELSE p
        f2 == IF s.contrast # 0
              THEN F32Mul(F32FromInt(f1), EffectFactor(s.contrast))
              ELSE F32FromInt(f1)
    IN  AsUint8(Clip(F32Floor(f2) + (IF s.noise > 0 THEN n ELSE 0), 0, 255))

ApplyChannel(p, s, n) ==
    LET v == F32Floor(ScaledChannel(p, s)) + (IF s.noise > 0 THEN n ELSE 0)
    IN  AsUint8(Clip(v, 0, 255))

VideoProcessor_apply_effects(frame, s, sample) ==
    [i \in DOMAIN frame |-> ApplyChannel(frame[i], s, sample[i])]

----------------------------------------------------------------------------
(* ImageEditor._apply_noise, one channel *)

NoiseChannel(p, n) == AsUint8(Clip(p + n, 0, 255))

ImageEditor_apply_noise(img, sample) ==
    [i \in DOMAIN img |-> NoiseChannel(img[i], sample[i])]

----------------------------------------------------------------------------
(* The pixel-transform specification *)

FxInit ==
    /\ fx_frame \in Frames
    /\ fx_settings \in VideoSettings
    /\ fx_sample = [i \in 1..FrameLen |-> 0]
    /\ fx_out = <<>>
    /\ fx_op = "none"

\* VideoProcessor.run, lines 63-68: one frame goes through apply_effects
FxVideoFrame ==
    /\ \E sample \in SampleFrames :
          /\ fx_sample' = (IF fx_settings.noise > 0 THEN sample ELSE fx_sample)
          /\ fx_out' = VideoProcessor_apply_effects(fx_frame, fx_settings, sample)
    /\ fx_op' = "video"
    /\ UNCHANGED <<fx_frame, fx_settings, ve_vars, ie_vars, main_vars>>

\* ImageEditor.apply_effects, lines 364-365: the noise step on the image
FxImageNoise ==
    /\ fx_settings.noise # 0
    /\ \E sample \in SampleFrames :
          /\ fx_sample' = sample
          /\ fx_out' = ImageEditor_apply_noise(fx_frame, sample)
    /\ fx_op' = "image"
    /\ UNCHANGED <<fx_frame, fx_settings, ve_vars, ie_vars, main_vars>>

FxNext == FxVideoFrame \/ FxImageNoise



----------------------------------------------------------------------------
(* Claims about the pixel transform *)

\* the value the real-number formula gives for one channel
ExactChannel(p, s) ==
    Clip((p * (100 + s.brightness) * (100 + s.contrast)) \div 10000, 0, 255)

SwapBC(s) == [s EXCEPT !.brightness = s.contrast, !.contrast = s.brightness]

Dist(a, b) == IF a >= b THEN a - b ELSE b - a

\* C2: every channel value of the frame returned by VideoProcessor.apply_effects
\* and of the image produced by ImageEditor._apply_noise lies in 0..255.
C2_ChannelRange ==
    fx_op \in {"video", "image"} =>
        \A i \in DOMAIN fx_out : fx_out[i] \in 0..255

\* a frame whose noisy value left the range came back clipped
C2_Witness ==
    /\ fx_op = "video"
    /\ fx_settings.noise > 0
    /\ \E i \in DOMAIN fx_out :
          /\ F32Floor(ScaledChannel(fx_frame[i], fx_settings)) + fx_sample[i] > 255
          /\ fx_out[i] = 255

\* C10 as stated: with noise <= 0 every channel equals the clipped, truncated
\* real-number product, swapping brightness and contrast gives the same frame,
\* and brightness = 100 with contrast = -50 returns the input frame.
C10_ExactAndSymmetric ==
    (fx_op = "video" /\ fx_settings.noise <= 0) =>
        /\ \A i \in DOMAIN fx_out : fx_out[i] = ExactChannel(fx_frame[i], fx_settings)
        /\ fx_out = VideoProcessor_apply_effects(fx_frame, SwapBC(fx_settings), fx_sample)
        /\ (fx_settings.brightness = 100 /\ fx_settings.contrast = -50 => fx_out = fx_frame)

\* C10 amended: with noise <= 0 every channel is within 1 of the clipped,
\* truncated real-number product (the products are rounded to float32), the
\* frame with brightness and contrast swapped differs by at most 1 per channel,
\* and brightness = 100 with contrast = -50 returns the input frame exactly:
\* nothing is clipped before the end.
C10_WithinOneUlp ==
    (fx_op = "video" /\ fx_settings.noise <= 0) =>
        /\ \A i \in DOMAIN fx_out :
              /\ Dist(fx_out[i], ExactChannel(fx_frame[i], fx_settings)) <= 1
              /\ Dist(fx_out[i],
                      ApplyChannel(fx_frame[i], SwapBC(fx_settings), fx_sample[i])) <= 1
        /\ (fx_settings.brightness = 100 /\ fx_settings.contrast = -50 => fx_out = fx_frame)

\* a channel whose intermediate value is 510 comes back unchanged
C10_Witness ==
    /\ fx_op = "video"
    /\ fx_settings.noise <= 0
    /\ fx_settings.brightness = 100
    /\ fx_settings.contrast = -50
    /\ \E i \in DOMAIN fx_out : fx_frame[i] = 255 /\ fx_out[i] = 255

----------------------------------------------------------------------------
(* The video editor: one UI thread, VideoProcessor worker threads *)

\* VideoProcessor objects one editor creates in a modelled run
MaxRuns == 2

\* largest frame count the container metadata reports
MaxMeta == 2

\* largest number of frames the capture actually yields
MaxFrames == 2

Workers == 1..MaxRuns

\* frame rates a capture reports (0: unknown, or below 1 after int())
FpsValues == {0, 25}

\* the file the open dialog offers: whether cv2 can open it, the frame count its
\* metadata reports, the frames it yields, and the frame rate it reports
Videos ==
    [opens : {TRUE}, meta : 0..MaxMeta, frames : 0..MaxFrames, fps : FpsValues]
    \cup [opens : {FALSE}, meta : {0}, frames : {0}, fps : {0}]

\* VideoProcessor.__init__ (the thread is not yet started: pc "unborn")
\* slider movements of the video editor in a modelled run
MaxMoves == 1

\* the parameters of the video editor's sliders
VideoSettingNames == {"noise", "brightness", "contrast"}

\* slider positions used in the model (sliders run -100..100)
VideoSliderValues == {0, 50}

\* a VideoProcessor not yet constructed.  settings_start is the value the
\* settings had when process_video constructed the worker, settings_used the
\* values its frames were transformed with
NewProcessor ==
    [pc |-> "unborn", stop |-> FALSE, frame_count |-> 0, written |-> 0,
     stop_written |-> -1, temp |-> "none", notes |-> <<>>, exc |-> "none",
     progress |-> 0, settings_start |-> <<>>, settings_used |-> {}]

\* VideoProcessor.settings: __init__ stores the dict it is given, which is the
\* editor's current_settings object, so a read sees the editor's latest values
VideoProcessor_settings(p) == current_settings

\* Thread.is_alive()
is_alive(p) == p.pc \notin {"unborn", "dead"}

\* VideoProcessor.stop: sets the stop event (stop_written remembers how many
\* frames had been written when the flag was first set)
stop(p) ==
    [p EXCEPT !.stop = TRUE,
              !.stop_written = IF p.stop THEN p.stop_written ELSE p.written]

\* the test at the head of the frame loop: where the worker goes next
LoopHead(p) == IF p.stop THEN "L79" ELSE "L63"

\* int((frame_count / total_frames) * 100); the double-precision quotient and
\* product truncate to this integer for every total_frames up to 4
Progress(frame_count, total_frames) == (frame_count * 100) \div total_frames

\* a faulty variant: join() that does not wait for the thread
JoinReturns_NoWait(p) == TRUE

\* Thread.join() returns
JoinReturns(p) == ~is_alive(p)

\* the thread that executes self.callback(...): run() calls it directly
CallbackThread == "worker"

Note(status, data) == [status |-> status, data |-> data]

\* number of VideoProcessor objects created so far
Created == Cardinality({w \in Workers : vp[w].pc # "unborn"})

VeInit ==
    /\ disk_video \in Videos
    /\ current_video_path = "None"
    /\ current_settings = [n \in VideoSettingNames |-> 0]
    /\ slider_moves = 0
    /\ video_processor = 0
    /\ vp = [w \in Workers |-> NewProcessor]
    /\ process_button = "normal"
    /\ cancel_button = "disabled"
    /\ progress_bar = 0
    /\ ui_log = {}
    /\ ui_pc = "idle"

Log(effects) == ui_log' = ui_log \cup effects

\* VideoPlayer.load_video on the UI thread: "raise" is the ZeroDivisionError of
\* int(1000 / self.fps)
LoadResult(v) ==
    IF ~v.opens THEN {"not_opened"}
    ELSE IF v.fps = 0 THEN {"raise"}
    ELSE {"ok"}

\* VideoEditor.open_video
open_video ==
    /\ ui_pc = "idle"
    /\ \E filename \in {"", "clip"} :
          IF filename = ""
          THEN UNCHANGED <<current_video_path, ui_log>>
          ELSE /\ current_video_path' = filename
               /\ Log({<<"load_video", "ui">>}
                      \cup (IF "raise" \in LoadResult(disk_video)
                            THEN {<<"show_error", "ui">>} ELSE {}))
    /\ UNCHANGED <<disk_video, current_settings, slider_moves, video_processor, vp,
                   process_button, cancel_button,
                   progress_bar, ui_pc>>
    /\ UNCHANGED <<fx_vars, ie_vars, main_vars>>

\* VideoEditor.process_video, lines 368-377: start a new worker
StartProcessor ==
    LET w == Created + 1 IN
    /\ progress_bar' = 0
    /\ cancel_button' = "normal"
    /\ process_button' = "disabled"
    /\ video_processor' = w
    /\ Log({<<"progress_bar.set", "ui">>})

\* VideoProcessor(path, self.current_settings, callback).start()
Started(p) == [p EXCEPT !.pc = "L41", !.settings_start = current_settings]

\* VideoEditor.process_video up to the join inside cancel_processing
process_video ==
    /\ ui_pc = "idle"
    /\ IF current_video_path = "None"
       THEN /\ Log({<<"show_error", "ui">>})
            /\ UNCHANGED <<video_processor, vp, process_button, cancel_button,
                           progress_bar, ui_pc>>
       ELSE /\ Created < MaxRuns
            /\ IF video_processor # 0 /\ is_alive(vp[video_processor])
               THEN /\ vp' = [vp EXCEPT ![video_processor] = stop(@)]
                    /\ ui_pc' = "join_process"
                    /\ UNCHANGED <<video_processor, process_button, cancel_button,
                                   progress_bar, ui_log>>
               ELSE /\ StartProcessor
                    /\ vp' = [vp EXCEPT ![Created + 1] = Started(@)]
                    /\ UNCHANGED ui_pc
    /\ UNCHANGED <<disk_video, current_settings, slider_moves, current_video_path>>
    /\ UNCHANGED <<fx_vars, ie_vars, main_vars>>

\* process_video after cancel_processing returned: lines 389-390, then 368-377
process_video_resume ==
    /\ ui_pc = "join_process"
    /\ JoinReturns(vp[video_processor])
    /\ StartProcessor
    /\ vp' = [vp EXCEPT ![Created + 1] = Started(@)]
    /\ ui_pc' = "idle"
    /\ UNCHANGED <<disk_video, current_settings, slider_moves, current_video_path>>
    /\ UNCHANGED <<fx_vars, ie_vars, main_vars>>

\* a slider of the video editor is moved: VideoEditor.update_settings
update_settings ==
    /\ ui_pc = "idle"
    /\ slider_moves < MaxMoves
    /\ slider_moves' = slider_moves + 1
    /\ \E param \in VideoSettingNames, value \in VideoSliderValues :
          current_settings' = [current_settings EXCEPT ![param] = value]
    /\ UNCHANGED <<disk_video, current_video_path, video_processor, vp,
                   process_button, cancel_button, progress_bar, ui_log, ui_pc>>
    /\ UNCHANGED <<fx_vars, ie_vars, main_vars>>

\* VideoEditor.cancel_processing up to the join
cancel_processing ==
    /\ ui_pc = "idle"
    /\ IF video_processor # 0 /\ is_alive(vp[video_processor])
       THEN /\ vp' = [vp EXCEPT ![video_processor] = stop(@)]
            /\ ui_pc' = "join_cancel"
       ELSE UNCHANGED <<vp, ui_pc>>
    /\ UNCHANGED <<disk_video, current_settings, slider_moves, current_video_path,
                   video_processor, process_button,
                   cancel_button, progress_bar, ui_log>>
    /\ UNCHANGED <<fx_vars, ie_vars, main_vars>>

\* cancel_processing after the join: lines 389-390
cancel_processing_resume ==
    /\ ui_pc = "join_cancel"
    /\ JoinReturns(vp[video_processor])
    /\ process_button' = "normal"
    /\ cancel_button' = "disabled"
    /\ ui_pc' = "idle"
    /\ UNCHANGED <<disk_video, current_settings, slider_moves, current_video_path,
                   video_processor, vp, progress_bar,
                   ui_log>>
    /\ UNCHANGED <<fx_vars, ie_vars, main_vars>>

\* VideoEditor.on_closing up to the join, or to quit() when no worker is alive
on_closing ==
    /\ ui_pc = "idle"
    /\ IF video_processor # 0 /\ is_alive(vp[video_processor])
       THEN /\ vp' = [vp EXCEPT ![video_processor] = stop(@)]
            /\ ui_pc' = "join_close"
       ELSE /\ ui_pc' = "closed"
            /\ UNCHANGED vp
    /\ UNCHANGED <<disk_video, current_settings, slider_moves, current_video_path,
                   video_processor, process_button,
                   cancel_button, progress_bar, ui_log>>
    /\ UNCHANGED <<fx_vars, ie_vars, main_vars>>

\* on_closing after the join: lines 389-390, then quit()
on_closing_resume ==
    /\ ui_pc = "join_close"
    /\ JoinReturns(vp[video_processor])
    /\ process_button' = "normal"
    /\ cancel_button' = "disabled"
    /\ ui_pc' = "closed"
    /\ UNCHANGED <<disk_video, current_settings, slider_moves, current_video_path,
                   video_processor, vp, progress_bar,
                   ui_log>>
    /\ UNCHANGED <<fx_vars, ie_vars, main_vars>>

----------------------------------------------------------------------------
(* VideoProcessor.run, one step per action; pc names the source line the   *)
(* worker is about to execute.  A Tk call made by the worker is served by  *)
(* the UI thread's event loop, so it completes only while the UI thread is *)
(* idle in mainloop, not while it is blocked in join().                    *)

Others == <<disk_video, current_settings, slider_moves, current_video_path,
            video_processor, process_button,
            cancel_button, ui_pc, fx_vars, ie_vars, main_vars>>

\* the event loop is free to serve a Tk call from another thread
TkServes == ui_pc = "idle"

\* lines 41-56: open the capture, read its properties, create the writer
run_open(w) ==
    /\ vp[w].pc = "L41"
    /\ vp' = [vp EXCEPT ![w] =
                IF disk_video.opens
                THEN [@ EXCEPT !.pc = "L58", !.temp = "exists"]
                ELSE [@ EXCEPT !.pc = "L92", !.exc = "Could not open video file"]]
    /\ UNCHANGED <<Others, progress_bar, ui_log>>

\* lines 58-61: the loop test and the stop test
run_loop_head(w) ==
    /\ vp[w].pc = "L58"
    /\ vp' = [vp EXCEPT ![w].pc = LoopHead(vp[w])]
    /\ UNCHANGED <<Others, progress_bar, ui_log>>

\* lines 63-71: read a frame, transform it, write it
run_frame(w) ==
    /\ vp[w].pc = "L63"
    /\ vp' = [vp EXCEPT ![w] =
                IF @.written < disk_video.frames
                THEN [@ EXCEPT !.pc = "L74", !.written = @ + 1,
                               !.settings_used =
                                   @ \cup {VideoProcessor_settings(vp[w])}]
                ELSE [@ EXCEPT !.pc = "L79"]]
    /\ UNCHANGED <<Others, progress_bar, ui_log>>

\* lines 74-75: count the frame and compute the percentage
run_progress(w) ==
    /\ vp[w].pc = "L74"
    /\ vp' = [vp EXCEPT ![w] =
                IF disk_video.meta = 0
                THEN [@ EXCEPT !.pc = "L92", !.frame_count = @ + 1,
                               !.exc = "division by zero"]
                ELSE [@ EXCEPT !.pc = "L76", !.frame_count = @ + 1,
                               !.progress = Progress(vp[w].frame_count + 1,
                                                     disk_video.meta)]]
    /\ UNCHANGED <<Others, progress_bar, ui_log>>

\* line 76: self.callback("progress", progress) is entered
run_callback_progress(w) ==
    /\ vp[w].pc = "L76"
    /\ vp' = [vp EXCEPT ![w] =
                [@ EXCEPT !.pc = "L395",
                          !.notes = Append(@, Note("progress", vp[w].progress))]]
    /\ UNCHANGED <<Others, progress_bar, ui_log>>

\* process_callback, line 395
callback_progress(w) ==
    /\ vp[w].pc = "L395"
    /\ TkServes
    /\ progress_bar' = vp[w].progress
    /\ Log({<<"progress_bar.set", CallbackThread>>})
    /\ vp' = [vp EXCEPT ![w].pc = "L58"]
    /\ UNCHANGED Others

\* lines 79-80: release the capture and the writer
run_release(w) ==
    /\ vp[w].pc = "L79"
    /\ vp' = [vp EXCEPT ![w].pc = "L82"]
    /\ UNCHANGED <<Others, progress_bar, ui_log>>

\* line 82: the second stop test
run_stop_test(w) ==
    /\ vp[w].pc = "L82"
    /\ vp' = [vp EXCEPT ![w].pc = IF ~vp[w].stop THEN "L84" ELSE "L87"]
    /\ UNCHANGED <<Others, progress_bar, ui_log>>

\* line 84: self.callback("finished", temp_file) is entered
run_callback_finished(w) ==
    /\ vp[w].pc = "L84"
    /\ vp' = [vp EXCEPT ![w] =
                [@ EXCEPT !.pc = "L397", !.notes = Append(@, Note("finished", "temp"))]]
    /\ UNCHANGED <<Others, progress_bar, ui_log>>

\* what VideoPlayer.load_video does with the processed file, written at
\* int(fps) frames per second: a writer given 0 fps leaves either no readable
\* file or one that reports 0 fps, and int(1000 / self.fps) then raises
LoadProcessed(v) == IF v.fps = 0 THEN {"not_opened", "raise"} ELSE {"ok"}

\* process_callback, lines 397-400, and the Tk calls of VideoPlayer.load_video
\* (self.stop(), lines 152-153)
callback_finished(w) ==
    /\ vp[w].pc = "L397"
    /\ TkServes
    /\ progress_bar' = 0
    /\ Log({<<"progress_bar.set", CallbackThread>>, <<"show_success", CallbackThread>>})
    /\ vp' = [vp EXCEPT ![w].pc = "L155"]
    /\ UNCHANGED Others

\* VideoPlayer.load_video, lines 155-163, still inside the 'finished' callback:
\* the capture is opened and the frame delay computed without any Tk call
callback_load_video(w) ==
    /\ vp[w].pc = "L155"
    /\ Log({<<"load_video", CallbackThread>>})
    /\ \E r \in LoadProcessed(disk_video) :
          vp' = [vp EXCEPT ![w] =
                    IF r = "raise"
                    THEN [@ EXCEPT !.pc = "L92", !.exc = "float division by zero"]
                    ELSE [@ EXCEPT !.pc = "dead"]]
    /\ UNCHANGED <<Others, progress_bar>>

\* lines 87-88: remove the temporary file of a cancelled run
run_remove(w) ==
    /\ vp[w].pc = "L87"
    /\ vp' = [vp EXCEPT ![w] = [@ EXCEPT !.pc = "dead", !.temp = "removed"]]
    /\ UNCHANGED <<Others, progress_bar, ui_log>>

\* line 92: self.callback("error", str(e)) is entered
run_callback_error(w) ==
    /\ vp[w].pc = "L92"
    /\ vp' = [vp EXCEPT ![w] =
                [@ EXCEPT !.pc = "L403", !.notes = Append(@, Note("error", vp[w].exc))]]
    /\ UNCHANGED <<Others, progress_bar, ui_log>>

\* process_callback, lines 403-404
callback_error(w) ==
    /\ vp[w].pc = "L403"
    /\ TkServes
    /\ progress_bar' = 0
    /\ Log({<<"show_error", CallbackThread>>, <<"progress_bar.set", CallbackThread>>})
    /\ vp' = [vp EXCEPT ![w].pc = "dead"]
    /\ UNCHANGED Others

\* any step of worker w
WorkerStep(w) ==
    \/ run_open(w)
    \/ run_loop_head(w)
    \/ run_frame(w)
    \/ run_progress(w)
    \/ run_callback_progress(w)
    \/ callback_progress(w)
    \/ run_release(w)
    \/ run_stop_test(w)
    \/ run_callback_finished(w)
    \/ callback_finished(w)
    \/ callback_load_video(w)
    \/ run_remove(w)
    \/ run_callback_error(w)
    \/ callback_error(w)

VeNext ==
    \/ open_video
    \/ process_video
    \/ process_video_resume
    \/ cancel_processing
    \/ cancel_processing_resume
    \/ on_closing
    \/ on_closing_resume
    \/ \E w \in Workers : WorkerStep(w)

----------------------------------------------------------------------------
(* The image editor.  An image is kept symbolically: the file it was read  *)
(* from and the enhancement operations applied to it, in order.            *)

\* the keys of ImageEditor.current_settings
SettingNames == {"noise", "transparency", "contrast", "sharpness", "brightness",
                 "saturation"}

\* the parameters _setup_controls builds a slider for
SliderNames == {"brightness", "contrast", "saturation", "sharpness", "noise"}

\* slider positions used in the model (sliders run -100..100)
SliderValues == {-50, 0, 100}

\* files the open dialog offers; "corrupt" is one Image.open rejects
ImageFiles == {"a.png", "b.png", "corrupt"}

\* distinct outcomes of np.random.normal
NoiseDraws == {"d1", "d2"}

\* no image (None)
NoImage == [src |-> "None", ops |-> <<>>]

\* Image.open(filename), and Image.copy() of it
Opened(filename) == [src |-> filename, ops |-> <<>>]

Abs(x) == IF x < 0 THEN -x ELSE x

\* one ImageEnhance step: enhance(1 + setting / 100), the factor in hundredths
Enhance(img, name, setting) ==
    IF setting # 0 THEN [img EXCEPT !.ops = Append(@, <<name, 100 + setting>>)]
    ELSE img

\* ImageEditor._apply_noise
AddNoise(img, setting, draw) ==
    IF setting # 0 THEN [img EXCEPT !.ops = Append(@, <<"noise", Abs(setting), draw>>)]
    ELSE img

\* a faulty variant: the effects applied on top of the current image instead of
\* a fresh copy of the original
ImageEditor_apply_effects_Accumulate(original, image, settings, draw) ==
    LET i0 == image
        i1 == Enhance(i0, "brightness", settings["brightness"])
        i2 == Enhance(i1, "contrast", settings["contrast"])
        i3 == Enhance(i2, "saturation", settings["saturation"])
        i4 == Enhance(i3, "sharpness", settings["sharpness"])
    IN  AddNoise(i4, settings["noise"], draw)

\* ImageEditor.apply_effects: the image it leaves in self.image
ImageEditor_apply_effects(original, image, settings, draw) ==
    LET i0 == original
        i1 == Enhance(i0, "brightness", settings["brightness"])
        i2 == Enhance(i1, "contrast", settings["contrast"])
        i3 == Enhance(i2, "saturation", settings["saturation"])
        i4 == Enhance(i3, "sharpness", settings["sharpness"])
    IN  AddNoise(i4, settings["noise"], draw)

IeInit ==
    /\ ie_original_image = NoImage
    /\ ie_image = NoImage
    /\ ie_display = NoImage
    /\ ie_settings = [n \in SettingNames |-> 0]
    /\ ie_sliders = [n \in SliderNames |-> 0]
    /\ ie_error = "none"
    /\ ie_last = <<"__init__">>

NotIe == <<fx_vars, ve_vars, main_vars>>

\* a faulty variant: a reset that leaves the settings as they are
ResetSettings_Untouched(settings) == settings

\* ImageEditor.reset_effects: the settings and sliders it leaves
ResetSettings(settings) ==
    [n \in SettingNames |-> IF n \in SliderNames THEN 0 ELSE settings[n]]

\* a faulty variant: open_image without its closing reset_effects()
open_image_NoReset ==
    /\ \E filename \in ImageFiles \cup {""} :
          /\ ie_last' = <<"open_image", filename>>
          /\ IF filename = ""
             THEN /\ ie_error' = "none"
                  /\ UNCHANGED <<ie_original_image, ie_image, ie_display>>
             ELSE IF filename = "corrupt"
             THEN /\ ie_error' = "Error opening image"
                  /\ UNCHANGED <<ie_original_image, ie_image, ie_display>>
             ELSE /\ ie_original_image' = Opened(filename)
                  /\ ie_image' = Opened(filename)
                  /\ ie_display' = Opened(filename)
                  /\ ie_error' = "none"
    /\ UNCHANGED <<ie_settings, ie_sliders, NotIe>>

\* ImageEditor.open_image
open_image ==
    /\ \E filename \in ImageFiles \cup {""} :
          /\ ie_last' = <<"open_image", filename>>
          /\ IF filename = ""
             THEN /\ ie_error' = "none"
                  /\ UNCHANGED <<ie_original_image, ie_image, ie_display, ie_settings,
                                 ie_sliders>>
             ELSE IF filename = "corrupt"
             THEN /\ ie_error' = "Error opening image"
                  /\ UNCHANGED <<ie_original_image, ie_image, ie_display, ie_settings,
                                 ie_sliders>>
             ELSE /\ ie_original_image' = Opened(filename)
                  /\ ie_image' = Opened(filename)
                  /\ ie_display' = Opened(filename)
                  /\ ie_settings' = ResetSettings(ie_settings)
                  /\ ie_sliders' = [n \in SliderNames |-> 0]
                  /\ ie_error' = "none"
    /\ UNCHANGED NotIe

\* a slider is moved: the widget takes the value and calls
\* ImageEditor.update_image(param, value)
update_image ==
    /\ \E param \in DOMAIN ie_sliders, value \in SliderValues, draw \in NoiseDraws :
          /\ ie_sliders' = [ie_sliders EXCEPT ![param] = value]
          /\ ie_last' = <<"update_image", param>>
          /\ IF ie_original_image = NoImage
             THEN UNCHANGED <<ie_settings, ie_image, ie_display>>
             ELSE LET settings == [ie_settings EXCEPT ![param] = value]
                      image == ImageEditor_apply_effects(ie_original_image, ie_image,
                                                         settings, draw)
                  IN  /\ ie_settings' = settings
                      /\ ie_image' = image
                      /\ ie_display' = image
    /\ ie_error' = "none"
    /\ UNCHANGED <<ie_original_image, NotIe>>

\* ImageEditor.reset_effects
reset_effects ==
    /\ ie_sliders' = [n \in SliderNames |-> 0]
    /\ ie_settings' = ResetSettings(ie_settings)
    /\ IF ie_original_image # NoImage
       THEN /\ ie_image' = ie_original_image
            /\ ie_display' = ie_original_image
       ELSE UNCHANGED <<ie_image, ie_display>>
    /\ ie_error' = "none"
    /\ ie_last' = <<"reset_effects">>
    /\ UNCHANGED <<ie_original_image, NotIe>>

\* files the save dialog returns; "" is a cancelled dialog
SaveFiles == {"", "out.png"}

\* a faulty variant: save_image writing original_image
save_image_Original ==
    /\ IF ie_image = NoImage
       THEN /\ ie_error' = "No image to save"
            /\ ie_last' = <<"save_image", "", NoImage>>
       ELSE /\ ie_error' = "none"
            /\ \E filename \in SaveFiles :
                  ie_last' = <<"save_image", filename,
                               IF filename = "" THEN NoImage ELSE ie_original_image>>
    /\ UNCHANGED <<ie_original_image, ie_image, ie_display, ie_settings, ie_sliders,
                   NotIe>>

\* ImageEditor.save_image: ie_last records the chosen path and the image
\* written to it (NoImage when nothing is written)
save_image ==
    /\ IF ie_image = NoImage
       THEN /\ ie_error' = "No image to save"
            /\ ie_last' = <<"save_image", "", NoImage>>
       ELSE /\ ie_error' = "none"
            /\ \E filename \in SaveFiles :
                  ie_last' = <<"save_image", filename,
                               IF filename = "" THEN NoImage ELSE ie_image>>
    /\ UNCHANGED <<ie_original_image, ie_image, ie_display, ie_settings, ie_sliders,
                   NotIe>>

IeNext == open_image \/ update_image \/ reset_effects \/ save_image

----------------------------------------------------------------------------
(* The main window *)

\* editor windows one main window constructs in a modelled run
MaxEditors == 4

\* error dialogs one main window shows in a modelled run
MaxDialogs == 4

\* positional arguments VideoEditor.__init__ takes besides self
VideoEditorParams == 0

\* positional arguments open_video_editor passes to VideoEditor(...)
VideoEditorArgs == 1

\* VideoEditor(...) with nargs positional arguments: a TypeError unless the
\* count is the one __init__ declares
VideoEditor_init(nargs) == IF nargs = VideoEditorParams THEN "ok" ELSE "TypeError"

\* ImageEditor(self): __init__(self, *args, **kwargs) takes the master
ImageEditor_init(nargs) == "ok"

MainInit ==
    /\ current_editor = 0
    /\ windows = {}
    /\ editors_made = 0
    /\ main_window = "normal"
    /\ main_dialogs = <<>>
    /\ main_running = TRUE
    /\ main_last = "__init__"

NotMain == <<fx_vars, ve_vars, ie_vars>>

\* a faulty variant: the current editor forgotten without being destroyed
AfterSafelyClose_Keep == windows

\* the windows left by MainApplication.safely_close_current_editor
AfterSafelyClose == {e \in windows : e.id # current_editor}

\* MainApplication.open_image_editor
open_image_editor ==
    /\ main_running
    /\ editors_made < MaxEditors
    /\ Len(main_dialogs) < MaxDialogs
    /\ main_last' = "open_image_editor"
    /\ IF ImageEditor_init(1) = "ok"
       THEN /\ editors_made' = editors_made + 1
            /\ windows' = AfterSafelyClose \cup {[id |-> editors_made + 1, kind |-> "image"]}
            /\ current_editor' = editors_made + 1
            /\ main_window' = "iconic"
            /\ UNCHANGED main_dialogs
       ELSE /\ windows' = AfterSafelyClose
            /\ current_editor' = 0
            /\ main_dialogs' = Append(main_dialogs, "Failed to open Image Editor")
            /\ main_window' = "normal"
            /\ UNCHANGED editors_made
    /\ UNCHANGED <<main_running, NotMain>>

\* MainApplication.open_video_editor
open_video_editor ==
    /\ main_running
    /\ editors_made < MaxEditors
    /\ Len(main_dialogs) < MaxDialogs
    /\ main_last' = "open_video_editor"
    /\ IF VideoEditor_init(VideoEditorArgs) = "ok"
       THEN /\ editors_made' = editors_made + 1
            /\ windows' = AfterSafelyClose \cup {[id |-> editors_made + 1, kind |-> "video"]}
            /\ current_editor' = editors_made + 1
            /\ UNCHANGED main_dialogs
       ELSE /\ windows' = AfterSafelyClose
            /\ current_editor' = 0
            /\ main_dialogs' = Append(main_dialogs, "Failed to open Video Editor")
            /\ UNCHANGED editors_made
    /\ UNCHANGED <<main_window, main_running, NotMain>>

\* on_editor_close, the image editor's WM_DELETE_WINDOW handler
on_editor_close ==
    /\ main_running
    /\ [id |-> current_editor, kind |-> "image"] \in windows
    /\ windows' = windows \ {[id |-> current_editor, kind |-> "image"]}
    /\ main_window' = "normal"
    /\ current_editor' = 0
    /\ main_last' = "on_editor_close"
    /\ UNCHANGED <<editors_made, main_dialogs, main_running, NotMain>>

\* MainApplication.on_closing
main_on_closing ==
    /\ main_running
    /\ windows' = AfterSafelyClose
    /\ current_editor' = 0
    /\ main_running' = FALSE
    /\ main_last' = "on_closing"
    /\ UNCHANGED <<editors_made, main_window, main_dialogs, NotMain>>

MainNext ==
    open_image_editor \/ open_video_editor \/ on_editor_close \/ main_on_closing

----------------------------------------------------------------------------
(* Specifications: each part is checked with the other parts at rest *)

\* the pixel-transform variables at rest
FxParked ==
    /\ fx_frame = [i \in 1..FrameLen |-> 0]
    /\ fx_settings = [noise |-> 0, brightness |-> 0, contrast |-> 0]
    /\ fx_sample = [i \in 1..FrameLen |-> 0]
    /\ fx_out = <<>>
    /\ fx_op = "none"

\* the video editor at rest
VeParked ==
    /\ VeInit
    /\ disk_video = [opens |-> FALSE, meta |-> 0, frames |-> 0, fps |-> 0]

\* the video editor starts; the other parts are at rest
Init == VeInit /\ FxParked /\ IeInit /\ MainInit

\* the sliders of the video editor do not steer a run (no branch of run() or
\* of a handler reads a setting), so Spec leaves them at rest
Spec == Init /\ [][VeNext]_vars

\* scheduling: a worker thread that can take its next step eventually takes
\* it, and a join() whose thread has terminated eventually returns.  The
\* user's actions (opening, processing, cancelling, closing) are not forced.
VeFairness ==
    /\ \A w \in Workers : WF_vars(WorkerStep(w))
    /\ WF_vars(process_video_resume)
    /\ WF_vars(cancel_processing_resume)
    /\ WF_vars(on_closing_resume)

SpecFair == Init /\ [][VeNext]_vars /\ VeFairness

\* the video editor with its sliders being moved
InitSettings == VeInit /\ FxParked /\ IeInit /\ MainInit

VeSettingsNext == VeNext \/ update_settings

SpecSettings == InitSettings /\ [][VeSettingsNext]_vars

\* a frame and its settings are drawn; the other parts are at rest
InitFx == FxInit /\ VeParked /\ IeInit /\ MainInit

SpecFx == InitFx /\ [][FxNext]_vars

\* the image editor starts; the other parts are at rest
InitImage == IeInit /\ FxParked /\ VeParked /\ MainInit

SpecImage == InitImage /\ [][IeNext]_vars

\* the main window starts; the other parts are at rest
InitMain == MainInit /\ FxParked /\ VeParked /\ IeInit

SpecMain == InitMain /\ [][MainNext]_vars

----------------------------------------------------------------------------
(* Claims about the main window *)

\* the kind of editor a handler of the main window is asked for
RequestedKind == IF main_last = "open_image_editor" THEN "image" ELSE "video"

\* C1: after open_image_editor or open_video_editor, current_editor is a live
\* editor window of the requested kind and no "Failed to open ..." dialog was shown.
C1_BothEditorsOpen ==
    main_last \in {"open_image_editor", "open_video_editor"} =>
        /\ [id |-> current_editor, kind |-> RequestedKind] \in windows
        /\ main_dialogs = <<>>

\* C15: MainApplication holds at most one open editor, the one current_editor
\* names: opening an editor first destroys the existing one, closing the image
\* editor restores the main window and sets current_editor to None, and closing
\* the main window destroys the current editor before quitting.
C15_AtMostOneEditor ==
    /\ [](/\ Cardinality(windows) <= 1
          /\ \A e \in windows : e.id = current_editor)
    /\ [][/\ main_last' \in {"open_image_editor", "open_video_editor"} =>
                windows \cap windows' = {}
          /\ main_last' = "on_editor_close" =>
                /\ windows' = {}
                /\ main_window' = "normal"
                /\ current_editor' = 0
          /\ main_last' = "on_closing" =>
                /\ windows' = {}
                /\ ~main_running']_vars

\* a second image editor has replaced the first
C15_Witness ==
    /\ main_last = "open_image_editor"
    /\ editors_made = 2
    /\ windows = {[id |-> 2, kind |-> "image"]}
    /\ current_editor = 2

----------------------------------------------------------------------------
(* Claims about the video editor *)

Alive == {w \in Workers : is_alive(vp[w])}

\* C3: at most one VideoProcessor worker thread is alive at any time.
C3_AtMostOneAlive == Cardinality(Alive) <= 1

\* a second worker runs after the first, stopped while alive, has terminated
C3_Witness ==
    /\ vp[1].stop
    /\ vp[1].pc = "dead"
    /\ is_alive(vp[2])

\* C4: every progress-bar update, dialog and preview reload is executed by the
\* UI thread, never by the worker thread.
C4_UiThreadOnly == \A e \in ui_log : e[2] = "ui"

\* the 'progress' values worker w has delivered, in order
ProgressNotes(w) == SelectSeq(vp[w].notes, LAMBDA n : n.status = "progress")

\* C5: every delivered 'progress' value is an integer in 0..100 equal to
\* floor(100 * frames_written / total_frames), and the values never decrease.
C5_ProgressPercent ==
    \A w \in Workers :
        LET ps == ProgressNotes(w) IN
        \A i \in 1..Len(ps) :
            /\ ps[i].data \in 0..100
            /\ ps[i].data = (100 * i) \div disk_video.meta
            /\ (i > 1 => ps[i - 1].data <= ps[i].data)

\* the lines of the frame loop, a callback made from it included
InLoop == {"L58", "L63", "L74", "L76", "L395"}

\* C6: once stop() has set the flag the worker writes at most one further frame
\* and then leaves its frame loop: a stopped worker inside the loop has written
\* at most one frame since, and can take its next step.
C6_StopLeavesLoop ==
    \A w \in Workers :
        (vp[w].stop /\ vp[w].pc \in InLoop) =>
            /\ vp[w].written <= vp[w].stop_written + 1
            /\ ENABLED WorkerStep(w)

HasNote(w, status) == \E i \in 1..Len(vp[w].notes) : vp[w].notes[i].status = status

\* C7: a run on which stop() was called before the worker terminated delivers no
\* 'finished' notification, and once the worker has terminated its temporary
\* output file no longer exists.
C7_CancelledRunLeavesNothing ==
    \A w \in Workers :
        vp[w].stop =>
            /\ ~HasNote(w, "finished")
            /\ (vp[w].pc = "dead" => vp[w].temp # "exists")

ErrorNotes(w) == SelectSeq(vp[w].notes, LAMBDA n : n.status = "error")

\* C8: a run in which a step raised delivers exactly one 'error' notification,
\* carrying the exception message, and no 'finished' notification.
C8_OneErrorNoFinished ==
    \A w \in Workers :
        vp[w].exc # "none" =>
            /\ ~HasNote(w, "finished")
            /\ Len(ErrorNotes(w)) <= 1
            /\ (vp[w].pc \in {"L403", "dead"} =>
                   ErrorNotes(w) = <<Note("error", vp[w].exc)>>)

\* C16: whenever no worker is alive and the UI thread is back in its event
\* loop, the Process button is enabled and the Cancel button is disabled.
C16_ButtonsFollowWorker ==
    (Alive = {} /\ ui_pc = "idle") =>
        /\ process_button = "normal"
        /\ cancel_button = "disabled"

\* the UI thread is inside the join() of cancel_processing
InJoin == ui_pc \in {"join_process", "join_cancel", "join_close"}

\* C18: whenever cancel_processing (called by the button, by process_video or
\* by on_closing) joins a live worker, the worker eventually terminates and the
\* join returns.
C18_JoinReturns == InJoin ~> ~InJoin

\* C17: every frame of a run is transformed with the settings as they were
\* when process_video was invoked; update_settings during the run does not
\* affect its frames.
C17_SettingsFixedPerRun ==
    \A w \in Workers : vp[w].settings_used \subseteq {vp[w].settings_start}

----------------------------------------------------------------------------
(* Claims about the image editor *)

\* C9: each of the six settings has a slider, and moving it while an image is
\* loaded sets the corresponding entry of current_settings to the slider value.
C9_SixSliders ==
    /\ SettingNames \subseteq DOMAIN ie_sliders
    /\ (ie_last[1] = "update_image" /\ ie_original_image # NoImage =>
           ie_settings[ie_last[2]] = ie_sliders[ie_last[2]])

\* the image apply_effects can leave for the current original and settings
EffectsOfSettings ==
    {ImageEditor_apply_effects(ie_original_image, ie_image, ie_settings, draw) :
        draw \in NoiseDraws}

C12_ResetClears ==
    ie_last = <<"reset_effects">> =>
        /\ \A n \in SettingNames : ie_settings[n] = 0
        /\ \A n \in DOMAIN ie_sliders : ie_sliders[n] = 0
        /\ (ie_original_image # NoImage => ie_image = ie_original_image)

\* reset_effects has run on a loaded image
C12_Witness ==
    /\ ie_last = <<"reset_effects">>
    /\ ie_original_image = Opened("a.png")
    /\ ie_image = Opened("a.png")

\* C13: after open_image loads a file, all settings and sliders are 0 and the
\* current image is an unmodified copy of the newly loaded original_image.
C13_OpenStartsClean ==
    (ie_last[1] = "open_image" /\ ie_last[2] \notin {"", "corrupt"}) =>
        /\ \A n \in SettingNames : ie_settings[n] = 0
        /\ \A n \in DOMAIN ie_sliders : ie_sliders[n] = 0
        /\ ie_original_image = Opened(ie_last[2])
        /\ ie_image = ie_original_image

\* a second file has been loaded
C13_Witness ==
    /\ ie_last = <<"open_image", "b.png">>
    /\ ie_original_image = Opened("b.png")
    /\ ie_error = "none"

====
